---------------------------- MODULE Spec2Model ----------------------------
(***************************************************************************)
(* A model of the user CRUD service (FastAPI + SQLAlchemy + PostgreSQL).   *)
(*                                                                         *)
(* State: the committed "users" table, the primary-key sequence, the       *)
(* database clock and the last HTTP response.  One action per request      *)
(* handler; each action is the whole handler: schema validation, the       *)
(* service method, the flush/commit with the table's constraints, and the  *)
(* response model.                                                         *)
(* Requests that overlap are in "inflight": each runs its handler one      *)
(* database statement at a time, in a transaction of its own.              *)
(*                                                                         *)
(* Strings are sequences of one-character strings so that str.lower() and  *)
(* the validators' regular expressions are computed, not assumed.          *)
(* An Optional value is <<>> (None) or <<v>>.                              *)
(***************************************************************************)
EXTENDS Integers, Sequences, FiniteSets, TLC

VARIABLES store, idSeq, now, resp, inflight

vars == <<store, idSeq, now, resp, inflight>>

---------------------------------------------------------------------------
(* Bounds of the model *)

\* values the primary-key sequence may hand out
MaxIds == 2
\* last instant of the database clock
MaxTime == 1
\* the latest second at which a token is issued
MaxIssue == 1
\* the most rows of a table that is listed page by page
MaxRows == 45

---------------------------------------------------------------------------
(* Program constants *)

ACCESS_TOKEN_EXPIRE_MINUTES == 30
DEFAULT_PAGE_SIZE == 20
MAX_PAGE_SIZE == 100

HTTP_201_CREATED == 201
HTTP_204_NO_CONTENT == 204
HTTP_400_BAD_REQUEST == 400
HTTP_401_UNAUTHORIZED == 401
HTTP_404_NOT_FOUND == 404
HTTP_500_INTERNAL_SERVER_ERROR == 500

---------------------------------------------------------------------------
(* Strings *)

None == <<>>
Some(v) == <<v>>
IsNone(o) == o = <<>>
Val(o) == o[1]

UpperSeq == <<"A","B","C","D","E","F","G","H","I","J","K","L","M",
              "N","O","P","Q","R","S","T","U","V","W","X","Y","Z">>
LowerSeq == <<"a","b","c","d","e","f","g","h","i","j","k","l","m",
              "n","o","p","q","r","s","t","u","v","w","x","y","z">>
DigitChars == {"0","1","2","3","4","5","6","7","8","9"}

Range(f) == {f[i] : i \in DOMAIN f}
UpperChars == Range(UpperSeq)
LowerChars == Range(LowerSeq)
LetterChars == UpperChars \cup LowerChars

\* (mutant) lower-casing is forgotten
LowerChar_identity(c) == c

\* str.lower() on one character
LowerChar(c) ==
    IF c \in UpperChars
    THEN LowerSeq[CHOOSE i \in DOMAIN UpperSeq : UpperSeq[i] = c]
    ELSE c

\* str.lower()
Lower(s) == [i \in DOMAIN s |-> LowerChar(s[i])]

\* re.match(r'^[a-zA-Z0-9_-]+$', v)
UsernamePattern(v) ==
    /\ Len(v) >= 1
    /\ \A i \in DOMAIN v : v[i] \in LetterChars \cup DigitChars \cup {"_", "-"}

\* re.match(r'^[a-zA-Z0-9._%+-]+@[a-zA-Z0-9.-]+\.[a-zA-Z]{2,}$', email)
EmailPattern(e) ==
    \E at \in DOMAIN e : \E dot \in DOMAIN e :
        /\ e[at] = "@"
        /\ e[dot] = "."
        /\ 1 < at
        /\ at + 1 < dot
        /\ dot + 2 <= Len(e)
        /\ \A i \in 1..(at - 1) :
               e[i] \in LetterChars \cup DigitChars \cup {".", "_", "%", "+", "-"}
        /\ \A i \in (at + 1)..(dot - 1) :
               e[i] \in LetterChars \cup DigitChars \cup {".", "-"}
        /\ \A i \in (dot + 1)..Len(e) : e[i] \in LetterChars


---------------------------------------------------------------------------
(* Request inputs *)

Str_ann == <<"a", "n", "n">>
Str_Ann == <<"A", "n", "n">>
Str_bob == <<"b", "o", "b">>
Str_bad == <<"a", "!">>

Mail_a == <<"a", "@", "x", ".", "i", "o">>
Mail_A == <<"A", "@", "x", ".", "i", "o">>
Mail_b == <<"b", "@", "x", ".", "i", "o">>

Pw_1 == <<"P", "a", "s", "s", "w", "0", "r", "d">>
Pw_2 == <<"S", "e", "c", "r", "e", "t", "4", "2">>
Pw_weak == <<"p", "w">>

Str_cat == <<"c", "a", "t">>
Mail_c == <<"c", "@", "x", ".", "i", "o">>

FirstNameInputs == {None, Some("Al")}
LastNameInputs == {None, Some("Lee")}
Salts == {"s1", "s2"}

\* what can go wrong in the database besides the table's constraints:
\* nothing, the COMMIT fails, or the COMMIT succeeds and the SELECT of
\* db.refresh after it fails
Faults == {"none", "commit", "refresh"}

\* bodies of POST /users that the schema rejects
InvalidCreateInputs ==
    {[username |-> Str_bad, email |-> Mail_a, password |-> Pw_1,
      first_name |-> None, last_name |-> None],
     [username |-> Str_ann, email |-> Mail_a, password |-> Pw_weak,
      first_name |-> None, last_name |-> None]}

---------------------------------------------------------------------------
(* schemas/user.py *)

\* Field(min_length=3, max_length=50) and the field validator of username
SchemaUsernameOK(v) == Len(v) >= 3 /\ Len(v) <= 50 /\ UsernamePattern(v)

\* UserBase.validate_username / UserUpdate.validate_username: return v.lower()
SchemaUsername(v) == Lower(v)

\* EmailStr: one "@", a local part, a dotted domain
EmailStrOK(e) ==
    /\ Cardinality({i \in DOMAIN e : e[i] = "@"}) = 1
    /\ LET at == CHOOSE i \in DOMAIN e : e[i] = "@"
       IN  /\ at > 1
           /\ \E dot \in (at + 2)..(Len(e) - 1) : e[dot] = "."

\* EmailStr returns the address with the domain lower-cased; the local part
\* keeps its case
EmailStr(e) ==
    LET at == CHOOSE i \in DOMAIN e : e[i] = "@"
    IN  [i \in DOMAIN e |-> IF i > at THEN LowerChar(e[i]) ELSE e[i]]

\* UserCreate.password: Field(min_length=8, max_length=128), validate_password
SchemaPasswordOK(v) ==
    /\ Len(v) >= 8 /\ Len(v) <= 128
    /\ \E i \in DOMAIN v : v[i] \in UpperChars
    /\ \E i \in DOMAIN v : v[i] \in LowerChars
    /\ \E i \in DOMAIN v : v[i] \in DigitChars

\* first_name / last_name: Optional, Field(max_length=100)
SchemaNameOK(o) == IsNone(o) \/ Len(Val(o)) <= 100

UserCreateOK(d) ==
    /\ SchemaUsernameOK(d.username)
    /\ EmailStrOK(d.email)
    /\ SchemaPasswordOK(d.password)
    /\ SchemaNameOK(d.first_name)
    /\ SchemaNameOK(d.last_name)

\* the UserCreate object the handler receives
UserCreate(d) ==
    [d EXCEPT !.username = SchemaUsername(d.username), !.email = EmailStr(d.email)]

\* the fields of UserUpdate; a body sets any subset of them, each to a value
\* or to null
UpdateFields == {"username", "email", "first_name", "last_name", "is_active"}

UserUpdateOK(d) ==
    /\ DOMAIN d \subseteq UpdateFields
    /\ "username" \in DOMAIN d /\ ~IsNone(d.username) => SchemaUsernameOK(Val(d.username))
    /\ "email" \in DOMAIN d /\ ~IsNone(d.email) => EmailStrOK(Val(d.email))
    /\ "first_name" \in DOMAIN d => SchemaNameOK(d.first_name)
    /\ "last_name" \in DOMAIN d => SchemaNameOK(d.last_name)

\* the UserUpdate object the handler receives (model_fields_set = DOMAIN d)
UserUpdate(d) ==
    [f \in DOMAIN d |->
        IF f = "username" /\ ~IsNone(d[f]) THEN Some(SchemaUsername(Val(d[f])))
        ELSE IF f = "email" /\ ~IsNone(d[f]) THEN Some(EmailStr(Val(d[f])))
        ELSE d[f]]

\* attribute access on the UserUpdate object: an unset field reads None
Attr(d, f) == IF f \in DOMAIN d THEN d[f] ELSE None

\* UserResponse.model_validate(user): every column but password
UserResponse(r) ==
    [id |-> r.id, username |-> r.username, email |-> r.email,
     first_name |-> r.first_name, last_name |-> r.last_name,
     is_active |-> r.is_active, created_at |-> r.created_at,
     updated_at |-> r.updated_at]

---------------------------------------------------------------------------
(* Password hashing (passlib CryptContext, bcrypt) *)

\* the bcrypt checksum of a password under a salt
Bcrypt(salt, password) == <<"bcrypt", salt, password>>

\* (mutant) the password is stored as it came
hash_password_plain(password, salt) ==
    [scheme |-> "plain", salt |-> salt, checksum |-> password]

\* UserService.hash_password: a digest carrying its salt
hash_password(password, salt) ==
    [scheme |-> "$2b$", salt |-> salt, checksum |-> Bcrypt(salt, password)]

\* UserService.verify_password
verify_password(plain_password, hashed_password) ==
    Bcrypt(hashed_password.salt, plain_password) = hashed_password.checksum

---------------------------------------------------------------------------
(* models/user.py, db/base.py: the "users" table *)

\* @validates('username'): raises ValueError on a bad value
ModelUsernameOK(username) ==
    username = <<>> \/ (Len(username) >= 3 /\ Len(username) <= 50 /\ UsernamePattern(username))

\* @validates('username'): the value stored
ModelUsername(username) == IF username = <<>> THEN username ELSE Lower(username)

\* @validates('email'): raises ValueError on a bad value
ModelEmailOK(email) == email = <<>> \/ EmailPattern(email)

\* @validates('email'): the value stored
ModelEmail(email) == IF email = <<>> THEN email ELSE Lower(email)

\* the columns declared nullable=False that a request can assign
NotNullColumns == {"username", "email", "is_active"}

\* (mutant) username and email are not declared unique
UniqueViolation_none(st, row) == FALSE

\* username and email are each declared unique=True: the constraint covers
\* every row of the table, whatever its is_active
UniqueViolation(st, row) ==
    \E i \in DOMAIN st :
        /\ st[i].id # row.id
        /\ (st[i].username = row.username \/ st[i].email = row.email)

\* Query.first()
First(q) == IF q = <<>> THEN None ELSE Some(q[1])

---------------------------------------------------------------------------
(* services/user_service.py *)

\* what a service call leaves behind: the committed table, the primary-key
\* sequence, and the handler's response
Outcome(st, seq, status, detail, body) ==
    [store |-> st, idSeq |-> seq, status |-> status, detail |-> detail, body |-> body]

\* (mutant) the lookup forgets the is_active filter
get_user_by_id_any(st, user_id) ==
    First(SelectSeq(st, LAMBDA r : r.id = user_id))

\* UserService.get_user_by_id
get_user_by_id(st, user_id) ==
    First(SelectSeq(st, LAMBDA r : r.id = user_id /\ r.is_active = TRUE))

\* UserService.get_user_by_email
get_user_by_email(st, email) ==
    First(SelectSeq(st, LAMBDA r : r.email = Lower(email) /\ r.is_active = TRUE))

\* (mutant) the lookup does not filter on is_active
get_user_by_username_any(st, username) ==
    First(SelectSeq(st, LAMBDA r : r.username = Lower(username)))

\* UserService.get_user_by_username
get_user_by_username(st, username) ==
    First(SelectSeq(st, LAMBDA r : r.username = Lower(username) /\ r.is_active = TRUE))

\* (mutant) the username check is skipped
ExistingUsername_skipped(st, username) == None

\* create_user: "Check if username already exists"
ExistingUsername(st, username) ==
    First(SelectSeq(st, LAMBDA r : r.username = Lower(username) /\ r.is_active = TRUE))

\* create_user: "Check if email already exists"
ExistingEmail(st, email) ==
    First(SelectSeq(st, LAMBDA r : r.email = Lower(email) /\ r.is_active = TRUE))

\* UserService.create_user, with the flush and commit it runs
create_user(st, seq, clock, user_data, salt, fault) ==
    IF ~IsNone(ExistingUsername(st, user_data.username))
    THEN Outcome(st, seq, HTTP_400_BAD_REQUEST, "Username already registered", None)
    ELSE IF ~IsNone(ExistingEmail(st, user_data.email))
    THEN Outcome(st, seq, HTTP_400_BAD_REQUEST, "Email already registered", None)
    ELSE IF ~ModelUsernameOK(Lower(user_data.username)) \/ ~ModelEmailOK(Lower(user_data.email))
    THEN \* ValueError out of User(...), answered by the global exception handler
         Outcome(st, seq, HTTP_500_INTERNAL_SERVER_ERROR, "Internal server error", None)
    ELSE
      LET db_user ==
              [id |-> seq + 1,
               username |-> ModelUsername(Lower(user_data.username)),
               email |-> ModelEmail(Lower(user_data.email)),
               password |-> hash_password(user_data.password, salt),
               first_name |-> user_data.first_name,
               last_name |-> user_data.last_name,
               is_active |-> TRUE,
               created_at |-> clock,
               updated_at |-> clock]
      IN  IF UniqueViolation(st, db_user) \/ fault = "commit"
          THEN \* the INSERT drew an id from the sequence before it failed
               Outcome(st, seq + 1, HTTP_500_INTERNAL_SERVER_ERROR, "Error creating user", None)
          ELSE IF fault = "refresh"
          THEN \* the row is committed; rollback has nothing left to undo
               Outcome(Append(st, db_user), seq + 1,
                       HTTP_500_INTERNAL_SERVER_ERROR, "Error creating user", None)
          ELSE Outcome(Append(st, db_user), seq + 1, HTTP_201_CREATED, "",
                       Some(db_user))

\* update_user: "Check for username conflicts" (the query of the guarded block)
OtherWithUsername(st, user_id, username) ==
    First(SelectSeq(st, LAMBDA r :
        r.username = Lower(username) /\ r.is_active = TRUE /\ r.id # user_id))

\* update_user: "Check for email conflicts" (the query of the guarded block)
OtherWithEmail(st, user_id, email) ==
    First(SelectSeq(st, LAMBDA r :
        r.email = Lower(email) /\ r.is_active = TRUE /\ r.id # user_id))

\* setattr(db_user, field, value) for one field of update_data, through the
\* model's validators; a None for a NOT NULL column is kept apart (NullsSet)
SetAttr(row, field, value) ==
    IF field = "username"
    THEN IF IsNone(value) THEN row ELSE [row EXCEPT !.username = ModelUsername(Val(value))]
    ELSE IF field = "email"
    THEN IF IsNone(value) THEN row ELSE [row EXCEPT !.email = ModelEmail(Val(value))]
    ELSE IF field = "first_name" THEN [row EXCEPT !.first_name = value]
    ELSE IF field = "last_name" THEN [row EXCEPT !.last_name = value]
    ELSE IF field = "is_active"
    THEN IF IsNone(value) THEN row ELSE [row EXCEPT !.is_active = Val(value)]
    ELSE row

\* (mutant) the loop runs over model_dump() without exclude_unset: a field
\* the body left out is written as None
ApplyUpdate_unset_too(row, update_data) ==
    LET F(f) == SetAttr(row, f, Attr(update_data, f))
    IN  [id |-> row.id,
         username |-> F("username").username,
         email |-> F("email").email,
         password |-> row.password,
         first_name |-> F("first_name").first_name,
         last_name |-> F("last_name").last_name,
         is_active |-> F("is_active").is_active,
         created_at |-> row.created_at,
         updated_at |-> row.updated_at]

\* update_user: "Update fields": the loop over model_dump(exclude_unset=True)
ApplyUpdate(row, update_data) ==
    LET F(f) == IF f \in DOMAIN update_data THEN SetAttr(row, f, update_data[f]) ELSE row
    IN  [id |-> row.id,
         username |-> F("username").username,
         email |-> F("email").email,
         password |-> row.password,
         first_name |-> F("first_name").first_name,
         last_name |-> F("last_name").last_name,
         is_active |-> F("is_active").is_active,
         created_at |-> row.created_at,
         updated_at |-> row.updated_at]

\* the NOT NULL columns the loop has set to None
NullsSet(update_data) == {f \in DOMAIN update_data \cap NotNullColumns : IsNone(update_data[f])}

\* the validators of the model raise ValueError inside the loop
UpdateValueError(update_data) ==
    \/ /\ "username" \in DOMAIN update_data
       /\ ~IsNone(update_data.username)
       /\ ~ModelUsernameOK(Val(update_data.username))
    \/ /\ "email" \in DOMAIN update_data
       /\ ~IsNone(update_data.email)
       /\ ~ModelEmailOK(Val(update_data.email))

\* the table with the row of this id replaced
Replace(st, row) == [i \in DOMAIN st |-> IF st[i].id = row.id THEN row ELSE st[i]]

\* onupdate=func.now(): an UPDATE statement refreshes updated_at
Stamp(row, clock) == [row EXCEPT !.updated_at = clock]

\* UserService.update_user, with the flush and commit it runs
update_user(st, seq, clock, user_id, user_data, fault) ==
    LET found == get_user_by_id(st, user_id) IN
    IF IsNone(found)
    THEN Outcome(st, seq, HTTP_404_NOT_FOUND, "User not found", None)
    ELSE
      LET db_user == Val(found)
          new_username == Attr(user_data, "username")
          new_email == Attr(user_data, "email")
      IN
      IF /\ ~IsNone(new_username)
         /\ Val(new_username) # db_user.username
         /\ ~IsNone(OtherWithUsername(st, user_id, Val(new_username)))
      THEN Outcome(st, seq, HTTP_400_BAD_REQUEST, "Username already taken", None)
      ELSE IF /\ ~IsNone(new_email)
              /\ Val(new_email) # db_user.email
              /\ ~IsNone(OtherWithEmail(st, user_id, Val(new_email)))
      THEN Outcome(st, seq, HTTP_400_BAD_REQUEST, "Email already taken", None)
      ELSE IF UpdateValueError(user_data)
      THEN Outcome(st, seq, HTTP_500_INTERNAL_SERVER_ERROR, "Internal server error", None)
      ELSE
        LET pending == ApplyUpdate(db_user, user_data)
            nulls == NullsSet(user_data)
            \* the unit of work emits an UPDATE only for a net change
            dirty == pending # db_user \/ nulls # {}
            written == Stamp(pending, clock)
        IN  IF ~dirty
            THEN IF fault # "none"
                 THEN Outcome(st, seq, HTTP_500_INTERNAL_SERVER_ERROR, "Error updating user", None)
                 ELSE Outcome(st, seq, 200, "", Some(db_user))
            ELSE IF nulls # {} \/ UniqueViolation(st, written) \/ fault = "commit"
            THEN Outcome(st, seq, HTTP_500_INTERNAL_SERVER_ERROR, "Error updating user", None)
            ELSE IF fault = "refresh"
            THEN \* the change is committed; rollback has nothing left to undo
                 Outcome(Replace(st, written), seq,
                         HTTP_500_INTERNAL_SERVER_ERROR, "Error updating user", None)
            ELSE Outcome(Replace(st, written), seq, 200, "", Some(written))

\* (mutant) delete removes the row instead of flagging it
delete_user_hard(st, seq, clock, user_id, fault) ==
    IF IsNone(get_user_by_id(st, user_id))
    THEN Outcome(st, seq, HTTP_404_NOT_FOUND, "User not found", None)
    ELSE Outcome(SelectSeq(st, LAMBDA r : r.id # user_id), seq, HTTP_204_NO_CONTENT, "", None)

\* (mutant) the failed commit is not rolled back: the change stays
delete_user_no_rollback(st, seq, clock, user_id, fault) ==
    LET found == get_user_by_id(st, user_id) IN
    IF IsNone(found)
    THEN Outcome(st, seq, HTTP_404_NOT_FOUND, "User not found", None)
    ELSE Outcome(Replace(st, Stamp([Val(found) EXCEPT !.is_active = FALSE], clock)), seq,
                 IF fault = "commit" THEN HTTP_500_INTERNAL_SERVER_ERROR
                 ELSE HTTP_204_NO_CONTENT,
                 IF fault = "commit" THEN "Error deleting user" ELSE "", None)

\* UserService.delete_user, with the flush and commit it runs (it has no
\* db.refresh)
delete_user(st, seq, clock, user_id, fault) ==
    LET found == get_user_by_id(st, user_id) IN
    IF IsNone(found)
    THEN Outcome(st, seq, HTTP_404_NOT_FOUND, "User not found", None)
    ELSE IF fault = "commit"
    THEN Outcome(st, seq, HTTP_500_INTERNAL_SERVER_ERROR, "Error deleting user", None)
    ELSE Outcome(Replace(st, Stamp([Val(found) EXCEPT !.is_active = FALSE], clock)),
                 seq, HTTP_204_NO_CONTENT, "", None)

\* (mutant) the password is not verified
authenticate_user_unverified(st, username, password) ==
    First(SelectSeq(st, LAMBDA r :
        (r.username = Lower(username) \/ r.email = Lower(username)) /\ r.is_active = TRUE))

\* UserService.authenticate_user
authenticate_user(st, username, password) ==
    LET user == First(SelectSeq(st, LAMBDA r :
                    (r.username = Lower(username) \/ r.email = Lower(username))
                    /\ r.is_active = TRUE))
    IN  IF IsNone(user) THEN None
        ELSE IF ~verify_password(password, Val(user).password) THEN None
        ELSE user

\* the orders in which a query without ORDER BY may return the rows of a
\* table: the order of insertion, its reverse, and every scan that starts in
\* the middle of the table and wraps around
Reverse(q) == [i \in 1..Len(q) |-> q[Len(q) + 1 - i]]
Rotate(q, k) == [i \in 1..Len(q) |-> q[((i + k - 1) % Len(q)) + 1]]
Scans(st) == {st, Reverse(st)} \cup {Rotate(st, k) : k \in 1..(Len(st) - 1)}

\* UserService.get_all_users: scan is the order in which the database
\* returns the rows to the query of the page
get_all_users(st, skip, limit, scan) ==
    LET total == Len(SelectSeq(st, LAMBDA r : r.is_active = TRUE))
        active == SelectSeq(scan, LAMBDA r : r.is_active = TRUE)
        last == IF skip + limit < Len(active) THEN skip + limit ELSE Len(active)
        users == SubSeq(active, skip + 1, last)
        pages == IF limit > 0 THEN (total + limit - 1) \div limit ELSE 1
        page == IF limit > 0 THEN (skip \div limit) + 1 ELSE 1
    IN  [users |-> users, total |-> total, page |-> page, size |-> limit, pages |-> pages]

\* settings.SECRET_KEY, settings.ALGORITHM
SECRET_KEY == "your-secret-key-change-this-in-production"
ALGORITHM == "HS256"

\* a JSON string / a JSON number, as a claim of a token
JsonStr(text) == [type |-> "str", text |-> text]
JsonNum(text) == [type |-> "num", text |-> text]

\* the HMAC of the claims under a key
Sign(claims, key, algorithm) == [alg |-> algorithm, key |-> key, claims |-> claims]

\* jwt.encode(to_encode, key, algorithm)
JwtEncode(claims, key, algorithm) ==
    [claims |-> claims, sig |-> Sign(claims, key, algorithm)]

\* UserService.create_access_token (clock in seconds)
create_access_token(user_id, clock) ==
    [access_token |->
         JwtEncode([sub |-> Some(JsonStr(ToString(user_id))),
                    exp |-> Some(clock + ACCESS_TOKEN_EXPIRE_MINUTES * 60),
                    iat |-> Some(clock)],
                   SECRET_KEY, ALGORITHM),
     token_type |-> "bearer",
     expires_in |-> ACCESS_TOKEN_EXPIRE_MINUTES * 60]

---------------------------------------------------------------------------
(* core/dependencies.py *)

\* (mutant) the upper limit of size is not checked
get_pagination_params_no_max(page, size) ==
    IF page < 1 THEN None
    ELSE IF size < 1 THEN None
    ELSE Some([skip |-> (page - 1) * size, limit |-> size, page |-> page, size |-> size])

\* (mutant) skip counts pages from 0
get_pagination_params_skip_page(page, size) ==
    IF page < 1 THEN None
    ELSE IF size < 1 \/ size > MAX_PAGE_SIZE THEN None
    ELSE Some([skip |-> page * size, limit |-> size, page |-> page, size |-> size])

\* get_pagination_params: None stands for the HTTPException (400)
get_pagination_params(page, size) ==
    IF page < 1 THEN None
    ELSE IF size < 1 \/ size > MAX_PAGE_SIZE THEN None
    ELSE Some([skip |-> (page - 1) * size, limit |-> size, page |-> page, size |-> size])

\* jwt.decode(token, key, algorithms): TRUE when it raises a JWTError (bad
\* signature, exp in the past, a sub that is not a string)
JwtDecodeRaises(token, key, algorithm, clock) ==
    \/ token.sig # Sign(token.claims, key, algorithm)
    \/ ~IsNone(token.claims.exp) /\ Val(token.claims.exp) < clock
    \/ ~IsNone(token.claims.sub) /\ Val(token.claims.sub).type # "str"

\* get_current_user_id: Some(user id) or None for the HTTPException (401)
get_current_user_id(token, clock) ==
    IF JwtDecodeRaises(token, SECRET_KEY, ALGORITHM, clock) THEN None
    ELSE IF IsNone(token.claims.sub) THEN None
    ELSE Some(Val(token.claims.sub).text)

---------------------------------------------------------------------------
(* api/v1/user_controller.py: the request handlers *)

Response(op, status, detail, body) ==
    [op |-> op, status |-> status, detail |-> detail, body |-> body]

\* the ids a path can name: every id the sequence can hand out, and one more
IdInputs == 1..(MaxIds + 1)

\* POST /users
CreateUser(d, salt, fault) ==
    IF ~UserCreateOK(d)
    THEN /\ resp' = Response("create_user", 422, "validation error", None)
         /\ UNCHANGED <<store, idSeq, now, inflight>>
    ELSE LET out == create_user(store, idSeq, now, UserCreate(d), salt, fault)
         IN  /\ out.idSeq <= MaxIds
             /\ store' = out.store
             /\ idSeq' = out.idSeq
             /\ resp' = Response("create_user", out.status, out.detail,
                                 IF IsNone(out.body) THEN None
                                 ELSE Some(UserResponse(Val(out.body))))
             /\ UNCHANGED <<now, inflight>>

\* GET /users/{user_id}
GetUser(user_id) ==
    LET user == get_user_by_id(store, user_id)
    IN  /\ resp' = IF IsNone(user)
                   THEN Response("get_user", HTTP_404_NOT_FOUND, "User not found", None)
                   ELSE Response("get_user", 200, "", Some(UserResponse(Val(user))))
        /\ UNCHANGED <<store, idSeq, now, inflight>>

\* PUT /users/{user_id}
UpdateUser(user_id, d, fault) ==
    IF ~UserUpdateOK(d)
    THEN /\ resp' = Response("update_user", 422, "validation error", None)
         /\ UNCHANGED <<store, idSeq, now, inflight>>
    ELSE LET out == update_user(store, idSeq, now, user_id, UserUpdate(d), fault)
         IN  /\ store' = out.store
             /\ resp' = Response("update_user", out.status, out.detail,
                                 IF IsNone(out.body) THEN None
                                 ELSE Some(UserResponse(Val(out.body))))
             /\ UNCHANGED <<idSeq, now, inflight>>

\* DELETE /users/{user_id}
DeleteUser(user_id, fault) ==
    LET out == delete_user(store, idSeq, now, user_id, fault)
    IN  /\ store' = out.store
        /\ resp' = Response("delete_user", out.status, out.detail, None)
        /\ UNCHANGED <<idSeq, now, inflight>>

\* GET /users?page=&size=: the response, and the queries the request sends
\* to the database (get_all_users sends two, the count and the page)
get_users(st, page, size, scan) ==
    LET pagination == get_pagination_params(page, size)
    IN  IF IsNone(pagination)
        THEN [response |-> Response("get_users", HTTP_400_BAD_REQUEST,
                              IF page < 1 THEN "Page number must be greater than 0"
                              ELSE "Page size must be between 1 and 100", None),
              queries |-> <<>>]
        ELSE LET result == get_all_users(st, Val(pagination).skip,
                                         Val(pagination).limit, scan)
             IN  [response |-> Response("get_users", 200, "",
                      Some([result EXCEPT !.users =
                              [i \in DOMAIN result.users |-> UserResponse(result.users[i])]])),
                  queries |-> <<"count", "offset_limit">>]

\* GET /users?page=&size=
GetUsers(page, size, scan) ==
    /\ resp' = get_users(store, page, size, scan).response
    /\ UNCHANGED <<store, idSeq, now, inflight>>

\* UserService.get_user_by_username, called on its own
GetUserByUsername(username) ==
    /\ resp' = Response("get_user_by_username", 0, "", get_user_by_username(store, username))
    /\ UNCHANGED <<store, idSeq, now, inflight>>

\* UserService.get_user_by_email, called on its own
GetUserByEmail(email) ==
    /\ resp' = Response("get_user_by_email", 0, "", get_user_by_email(store, email))
    /\ UNCHANGED <<store, idSeq, now, inflight>>

\* POST /users/login: the response
login(st, clock, username, password) ==
    LET user == authenticate_user(st, username, password)
    IN  IF IsNone(user)
        THEN Response("login", HTTP_401_UNAUTHORIZED, "Incorrect username or password", None)
        ELSE Response("login", 200, "", Some(create_access_token(Val(user).id, clock)))

\* POST /users/login
Login(username, password) ==
    /\ resp' = login(store, now, username, password)
    /\ UNCHANGED <<store, idSeq, now, inflight>>

\* the bearer-token dependency of GET /users/me, applied to a token
GetCurrentUserId(token) ==
    LET user_id == get_current_user_id(token, now)
    IN  /\ resp' = IF IsNone(user_id)
                   THEN Response("get_current_user_id", HTTP_401_UNAUTHORIZED,
                                 "Invalid authentication credentials", None)
                   ELSE Response("get_current_user_id", 200, "", user_id)
        /\ UNCHANGED <<store, idSeq, now, inflight>>

\* the number a path segment or a query parameter spells, None if none
\* (the ids the model reaches, and one more)
IntOf(text) ==
    LET ns == {n \in 0..(MaxIds + 2) : ToString(n) = text}
    IN  IF ns = {} THEN None ELSE Some(CHOOSE n \in ns : TRUE)

\* the routes of the router, in the order the decorators declare them
Routes ==
    << [method |-> "POST", path |-> "/", endpoint |-> "create_user"],
       [method |-> "GET", path |-> "/", endpoint |-> "get_users"],
       [method |-> "GET", path |-> "/{user_id}", endpoint |-> "get_user"],
       [method |-> "PUT", path |-> "/{user_id}", endpoint |-> "update_user"],
       [method |-> "DELETE", path |-> "/{user_id}", endpoint |-> "delete_user"],
       [method |-> "POST", path |-> "/login", endpoint |-> "login"],
       [method |-> "GET", path |-> "/me", endpoint |-> "get_current_user"] >>

\* a route's path matches the segment after /users/: a path parameter
\* matches every segment that is not empty
PathMatches(path, segment) ==
    IF path = "/" THEN segment = ""
    ELSE IF path = "/{user_id}" THEN segment # ""
    ELSE IF path = "/login" THEN segment = "login"
    ELSE path = "/me" /\ segment = "me"

\* the endpoint of the first route that matches, None if no route does
Dispatch(routes, method, segment) ==
    LET hits == SelectSeq(routes, LAMBDA r :
                    r.method = method /\ PathMatches(r.path, segment))
    IN  IF hits = <<>> THEN None ELSE Some(hits[1].endpoint)

\* what HTTPBearer answers a request without an Authorization header,
\* depending on the version of the framework
HTTPBearerRefusals == {HTTP_401_UNAUTHORIZED, 403}

\* GET /users/me, once routed to get_current_user: credentials is None
\* without an Authorization header
get_current_user(st, clock, credentials, refusal) ==
    IF IsNone(credentials)
    THEN Response("get_current_user", refusal, "Not authenticated", None)
    ELSE LET current_user_id == get_current_user_id(Val(credentials), clock)
         IN  IF IsNone(current_user_id)
             THEN Response("get_current_user", HTTP_401_UNAUTHORIZED,
                           "Invalid authentication credentials", None)
             ELSE IF IsNone(IntOf(Val(current_user_id)))
             THEN Response("get_current_user", HTTP_500_INTERNAL_SERVER_ERROR,
                           "Internal server error", None)
             ELSE LET user == get_user_by_id(st, Val(IntOf(Val(current_user_id))))
                  IN  IF IsNone(user)
                      THEN Response("get_current_user", HTTP_404_NOT_FOUND,
                                    "User not found", None)
                      ELSE Response("get_current_user", 200, "",
                                    Some(UserResponse(Val(user))))

\* GET /users/{user_id}, once routed to get_user with the segment as user_id
get_user(st, segment) ==
    IF IsNone(IntOf(segment))
    THEN Response("get_user", 422, "validation error", None)
    ELSE LET user == get_user_by_id(st, Val(IntOf(segment)))
         IN  IF IsNone(user)
             THEN Response("get_user", HTTP_404_NOT_FOUND, "User not found", None)
             ELSE Response("get_user", 200, "", Some(UserResponse(Val(user))))

\* the response to GET /users/<segment> with the given credentials
Get(st, clock, segment, credentials, refusal) ==
    LET endpoint == Dispatch(Routes, "GET", segment)
    IN  IF endpoint = Some("get_current_user")
        THEN get_current_user(st, clock, credentials, refusal)
        ELSE IF endpoint = Some("get_user") THEN get_user(st, segment)
        ELSE Response("none", HTTP_404_NOT_FOUND, "Not Found", None)

\* GET /users/<segment>
GetPath(segment, credentials, refusal) ==
    /\ resp' = Get(store, now, segment, credentials, refusal)
    /\ UNCHANGED <<store, idSeq, now, inflight>>

\* the clock advances by one second, up to a limit
TickTo(limit) ==
    /\ now < limit
    /\ now' = now + 1
    /\ UNCHANGED <<store, idSeq, resp, inflight>>

---------------------------------------------------------------------------
(* Requests that overlap.  Each is served by a worker with a session of its *)
(* own; a step is one statement sent to the database (READ COMMITTED: a     *)
(* SELECT sees what is committed, a write waits for an uncommitted write to *)
(* the same key).                                                           *)

Requests == {"r1", "r2"}

\* a request that has not arrived
Idle ==
    [op |-> "none", pc |-> "idle", body |-> <<>>, user_id |-> 0,
     loaded |-> None, write |-> None,
     username_check_at |-> 0, email_check_at |-> 0,
     response |-> Response("none", 0, "", None)]

\* a request after its response
Finished(request, status, detail, body) ==
    [request EXCEPT !.pc = "done", !.write = None,
                    !.response = Response(request.op, status, detail, body)]

\* the request r ends with a response
Finish(r, status, detail, body) ==
    /\ inflight' = [inflight EXCEPT ![r] = Finished(inflight[r], status, detail, body)]
    /\ resp' = Response(inflight[r].op, status, detail, body)

\* another request holds an uncommitted row with this username or email:
\* the unique indexes make the writer wait for it
WaitsForKey(r, username, email) ==
    \E q \in Requests \ {r} :
        /\ inflight[q].pc = "commit"
        /\ ~IsNone(inflight[q].write)
        /\ \/ Val(inflight[q].write).username = username
           \/ Val(inflight[q].write).email = email

\* another request holds an uncommitted write to the row user_id
WaitsForRow(r, user_id) ==
    \E q \in Requests \ {r} :
        /\ inflight[q].pc = "commit"
        /\ ~IsNone(inflight[q].write)
        /\ Val(inflight[q].write).id = user_id

\* POST /users arrives (a body the schema refuses is answered 422 at once)
BeginCreate(r, d) ==
    /\ inflight[r].pc = "idle"
    /\ IF ~UserCreateOK(d)
       THEN /\ inflight' = [inflight EXCEPT ![r].op = "create_user", ![r].pc = "done",
                              ![r].response =
                                  Response("create_user", 422, "validation error", None)]
            /\ resp' = Response("create_user", 422, "validation error", None)
       ELSE /\ inflight' = [inflight EXCEPT ![r].op = "create_user",
                              ![r].pc = "check_username", ![r].body = UserCreate(d)]
            /\ UNCHANGED resp
    /\ UNCHANGED <<store, idSeq, now>>

\* create_user: "Check if username already exists"
CreateCheckUsername(r) ==
    /\ inflight[r].op = "create_user"
    /\ inflight[r].pc = "check_username"
    /\ IF ~IsNone(ExistingUsername(store, inflight[r].body.username))
       THEN /\ inflight' = [inflight EXCEPT ![r] =
                   Finished([inflight[r] EXCEPT !.username_check_at = Len(store)],
                            HTTP_400_BAD_REQUEST, "Username already registered", None)]
            /\ resp' = Response("create_user", HTTP_400_BAD_REQUEST,
                                "Username already registered", None)
       ELSE /\ inflight' = [inflight EXCEPT ![r].pc = "check_email",
                              ![r].username_check_at = Len(store)]
            /\ UNCHANGED resp
    /\ UNCHANGED <<store, idSeq, now>>

\* create_user: "Check if email already exists"
CreateCheckEmail(r) ==
    /\ inflight[r].op = "create_user"
    /\ inflight[r].pc = "check_email"
    /\ IF ~IsNone(ExistingEmail(store, inflight[r].body.email))
       THEN /\ inflight' = [inflight EXCEPT ![r] =
                   Finished([inflight[r] EXCEPT !.email_check_at = Len(store)],
                            HTTP_400_BAD_REQUEST, "Email already registered", None)]
            /\ resp' = Response("create_user", HTTP_400_BAD_REQUEST,
                                "Email already registered", None)
       ELSE /\ inflight' = [inflight EXCEPT ![r].pc = "flush",
                              ![r].email_check_at = Len(store)]
            /\ UNCHANGED resp
    /\ UNCHANGED <<store, idSeq, now>>

\* create_user: User(...), db.add and the INSERT that db.commit() flushes
CreateFlush(r, salt) ==
    LET user_data == inflight[r].body
        db_user == [id |-> idSeq + 1,
                    username |-> ModelUsername(Lower(user_data.username)),
                    email |-> ModelEmail(Lower(user_data.email)),
                    password |-> hash_password(user_data.password, salt),
                    first_name |-> user_data.first_name,
                    last_name |-> user_data.last_name,
                    is_active |-> TRUE,
                    created_at |-> now,
                    updated_at |-> now]
    IN  /\ inflight[r].op = "create_user"
        /\ inflight[r].pc = "flush"
        /\ IF ~ModelUsernameOK(Lower(user_data.username))
                \/ ~ModelEmailOK(Lower(user_data.email))
           THEN /\ Finish(r, HTTP_500_INTERNAL_SERVER_ERROR, "Internal server error", None)
                /\ UNCHANGED idSeq
           ELSE /\ idSeq < MaxIds
                /\ ~WaitsForKey(r, db_user.username, db_user.email)
                /\ idSeq' = idSeq + 1
                /\ IF UniqueViolation(store, db_user)
                   THEN Finish(r, HTTP_500_INTERNAL_SERVER_ERROR, "Error creating user", None)
                   ELSE /\ inflight' = [inflight EXCEPT ![r].pc = "commit",
                                          ![r].write = Some(db_user)]
                        /\ UNCHANGED resp
        /\ UNCHANGED <<store, now>>

\* create_user: the COMMIT of db.commit(), db.refresh and the response
CreateCommit(r) ==
    /\ inflight[r].op = "create_user"
    /\ inflight[r].pc = "commit"
    /\ store' = Append(store, Val(inflight[r].write))
    /\ Finish(r, HTTP_201_CREATED, "", Some(UserResponse(Val(inflight[r].write))))
    /\ UNCHANGED <<idSeq, now>>

\* PUT /users/{user_id} arrives (a body the schema refuses is answered 422
\* at once)
BeginUpdate(r, user_id, d) ==
    /\ inflight[r].pc = "idle"
    /\ IF ~UserUpdateOK(d)
       THEN /\ inflight' = [inflight EXCEPT ![r] =
                   Finished([Idle EXCEPT !.op = "update_user"], 422, "validation error", None)]
            /\ resp' = Response("update_user", 422, "validation error", None)
       ELSE /\ inflight' = [inflight EXCEPT ![r] =
                   [Idle EXCEPT !.op = "update_user", !.pc = "lookup",
                                !.user_id = user_id, !.body = UserUpdate(d)]]
            /\ UNCHANGED resp
    /\ UNCHANGED <<store, idSeq, now>>

\* update_user: "Get existing user", a query over the committed rows
UpdateLookup(r) ==
    /\ inflight[r].op = "update_user"
    /\ inflight[r].pc = "lookup"
    /\ LET found == get_user_by_id(store, inflight[r].user_id)
       IN  IF IsNone(found)
           THEN Finish(r, HTTP_404_NOT_FOUND, "User not found", None)
           ELSE /\ inflight' = [inflight EXCEPT ![r].pc = "check_username",
                                                ![r].loaded = found]
                /\ UNCHANGED resp
    /\ UNCHANGED <<store, idSeq, now>>

\* update_user: "Check for username conflicts"
UpdateCheckUsername(r) ==
    /\ inflight[r].op = "update_user"
    /\ inflight[r].pc = "check_username"
    /\ LET db_user == Val(inflight[r].loaded)
           new_username == Attr(inflight[r].body, "username")
       IN  IF /\ ~IsNone(new_username)
              /\ Val(new_username) # db_user.username
              /\ ~IsNone(OtherWithUsername(store, inflight[r].user_id, Val(new_username)))
           THEN Finish(r, HTTP_400_BAD_REQUEST, "Username already taken", None)
           ELSE /\ inflight' = [inflight EXCEPT ![r].pc = "check_email"]
                /\ UNCHANGED resp
    /\ UNCHANGED <<store, idSeq, now>>

\* update_user: "Check for email conflicts"
UpdateCheckEmail(r) ==
    /\ inflight[r].op = "update_user"
    /\ inflight[r].pc = "check_email"
    /\ LET db_user == Val(inflight[r].loaded)
           new_email == Attr(inflight[r].body, "email")
       IN  IF /\ ~IsNone(new_email)
              /\ Val(new_email) # db_user.email
              /\ ~IsNone(OtherWithEmail(store, inflight[r].user_id, Val(new_email)))
           THEN Finish(r, HTTP_400_BAD_REQUEST, "Email already taken", None)
           ELSE /\ inflight' = [inflight EXCEPT ![r].pc = "flush"]
                /\ UNCHANGED resp
    /\ UNCHANGED <<store, idSeq, now>>

\* UPDATE users SET <the columns the session changed> WHERE id = :id, applied
\* to the row as it is now: the statement has no condition on is_active
UpdateStatement(current, loaded, pending) ==
    [id |-> current.id,
     username |-> IF pending.username # loaded.username
                  THEN pending.username ELSE current.username,
     email |-> IF pending.email # loaded.email THEN pending.email ELSE current.email,
     password |-> current.password,
     first_name |-> IF pending.first_name # loaded.first_name
                    THEN pending.first_name ELSE current.first_name,
     last_name |-> IF pending.last_name # loaded.last_name
                   THEN pending.last_name ELSE current.last_name,
     is_active |-> IF pending.is_active # loaded.is_active
                   THEN pending.is_active ELSE current.is_active,
     created_at |-> current.created_at,
     updated_at |-> current.updated_at]

\* update_user: "Update fields" and the flush of db.commit(): the UPDATE waits
\* for a transaction that holds the row, then runs on the row it left
UpdateFlush(r) ==
    /\ inflight[r].op = "update_user"
    /\ inflight[r].pc = "flush"
    /\ LET db_user == Val(inflight[r].loaded)
           user_data == inflight[r].body
           pending == ApplyUpdate(db_user, user_data)
           nulls == NullsSet(user_data)
           dirty == pending # db_user \/ nulls # {}
           current == Val(get_user_by_id_any(store, inflight[r].user_id))
           written == Stamp(UpdateStatement(current, db_user, pending), now)
       IN  IF UpdateValueError(user_data)
           THEN Finish(r, HTTP_500_INTERNAL_SERVER_ERROR, "Internal server error", None)
           ELSE IF ~dirty
           THEN /\ inflight' = [inflight EXCEPT ![r].pc = "refresh"]
                /\ UNCHANGED resp
           ELSE /\ ~WaitsForRow(r, inflight[r].user_id)
                /\ ~WaitsForKey(r, IF written.username # current.username
                                   THEN written.username ELSE <<>>,
                                   IF written.email # current.email
                                   THEN written.email ELSE <<>>)
                /\ IF nulls # {} \/ UniqueViolation(store, written)
                   THEN Finish(r, HTTP_500_INTERNAL_SERVER_ERROR, "Error updating user", None)
                   ELSE /\ inflight' = [inflight EXCEPT ![r].pc = "commit",
                                                        ![r].write = Some(written)]
                        /\ UNCHANGED resp
    /\ UNCHANGED <<store, idSeq, now>>

\* update_user: the COMMIT of db.commit()
UpdateCommit(r) ==
    /\ inflight[r].op = "update_user"
    /\ inflight[r].pc = "commit"
    /\ store' = Replace(store, Val(inflight[r].write))
    /\ inflight' = [inflight EXCEPT ![r].pc = "refresh", ![r].write = None]
    /\ UNCHANGED <<idSeq, now, resp>>

\* update_user: db.refresh(db_user), a SELECT by primary key, and the response
UpdateRefresh(r) ==
    /\ inflight[r].op = "update_user"
    /\ inflight[r].pc = "refresh"
    /\ Finish(r, 200, "",
              Some(UserResponse(Val(get_user_by_id_any(store, inflight[r].user_id)))))
    /\ UNCHANGED <<store, idSeq, now>>

\* DELETE /users/{user_id} arrives
BeginDelete(r, user_id) ==
    /\ inflight[r].pc = "idle"
    /\ inflight' = [inflight EXCEPT ![r] =
           [Idle EXCEPT !.op = "delete_user", !.pc = "lookup", !.user_id = user_id]]
    /\ UNCHANGED <<store, idSeq, now, resp>>

\* delete_user: "Get existing user"
DeleteLookup(r) ==
    /\ inflight[r].op = "delete_user"
    /\ inflight[r].pc = "lookup"
    /\ LET found == get_user_by_id(store, inflight[r].user_id)
       IN  IF IsNone(found)
           THEN Finish(r, HTTP_404_NOT_FOUND, "User not found", None)
           ELSE /\ inflight' = [inflight EXCEPT ![r].pc = "flush", ![r].loaded = found]
                /\ UNCHANGED resp
    /\ UNCHANGED <<store, idSeq, now>>

\* delete_user: db_user.is_active = False and the flush of db.commit()
DeleteFlush(r) ==
    /\ inflight[r].op = "delete_user"
    /\ inflight[r].pc = "flush"
    /\ ~WaitsForRow(r, inflight[r].user_id)
    /\ LET db_user == Val(inflight[r].loaded)
           current == Val(get_user_by_id_any(store, inflight[r].user_id))
           written == Stamp(UpdateStatement(current, db_user,
                                            [db_user EXCEPT !.is_active = FALSE]), now)
       IN  inflight' = [inflight EXCEPT ![r].pc = "commit", ![r].write = Some(written)]
    /\ UNCHANGED <<store, idSeq, now, resp>>

\* delete_user: the COMMIT of db.commit() and the response
DeleteCommit(r) ==
    /\ inflight[r].op = "delete_user"
    /\ inflight[r].pc = "commit"
    /\ store' = Replace(store, Val(inflight[r].write))
    /\ Finish(r, HTTP_204_NO_CONTENT, "", None)
    /\ UNCHANGED <<idSeq, now>>

Init ==
    /\ store = <<>>
    /\ idSeq = 0
    /\ now = 0
    /\ resp = Response("none", 0, "", None)
    /\ inflight = [r \in Requests |-> Idle]

---------------------------------------------------------------------------
(* Spec: accounts.  Every create, update, delete and get-by-id over three   *)
(* usernames and three e-mail addresses, with case variants; the database   *)
(* fails only on the table's constraints, and the profile columns and the   *)
(* clock stay fixed.                                                        *)

AccountCreateInputs ==
    [username : {Str_ann, Str_Ann, Str_bob, Str_cat},
     email : {Mail_a, Mail_A, Mail_b, Mail_c},
     password : {Pw_1}, first_name : {None}, last_name : {None}]
    \cup InvalidCreateInputs

UsernameValues == {None, Some(Str_ann), Some(Str_Ann), Some(Str_bob)}
EmailValues == {None, Some(Mail_a), Some(Mail_A), Some(Mail_b)}
IsActiveValues == {None, Some(TRUE), Some(FALSE)}

\* bodies of PUT /users/{id} over username, email and is_active: no field
\* set, one field set (to a value or to null), or username and email both set
AccountUpdateInputs ==
    {<<>>}
    \cup [username : UsernameValues]
    \cup [email : EmailValues]
    \cup [is_active : IsActiveValues]
    \cup [username : UsernameValues \ {None}, email : EmailValues \ {None}]

Next ==
    \/ \E d \in AccountCreateInputs : CreateUser(d, "s1", "none")
    \/ \E user_id \in IdInputs : GetUser(user_id)
    \/ \E user_id \in IdInputs : DeleteUser(user_id, "none")
    \/ \E user_id \in IdInputs : \E d \in AccountUpdateInputs : UpdateUser(user_id, d, "none")

Spec == Init /\ [][Next]_vars

---------------------------------------------------------------------------
(* SpecProfile: updates of the profile columns while the clock runs.  Two   *)
(* accounts; the bodies of PUT change first_name, username or nothing.      *)

ProfileCreateInputs ==
    {[username |-> Str_ann, email |-> Mail_a, password |-> Pw_1,
      first_name |-> None, last_name |-> None],
     [username |-> Str_bob, email |-> Mail_b, password |-> Pw_2,
      first_name |-> Some("Al"), last_name |-> Some("Lee")]}

ProfileUpdateInputs ==
    {<<>>}
    \cup [first_name : FirstNameInputs]
    \cup [username : {Some(Str_Ann)}]

NextProfile ==
    \/ \E d \in ProfileCreateInputs : CreateUser(d, "s1", "none")
    \/ \E user_id \in IdInputs : DeleteUser(user_id, "none")
    \/ \E user_id \in IdInputs : \E d \in ProfileUpdateInputs : UpdateUser(user_id, d, "none")
    \/ TickTo(MaxTime)

SpecProfile == Init /\ [][NextProfile]_vars

---------------------------------------------------------------------------
(* SpecAuth: accounts with two passwords are created and soft-deleted, and  *)
(* are read one by one, listed and logged in to.                            *)

AuthCreateInputs ==
    {[username |-> Str_ann, email |-> Mail_a, password |-> Pw_1,
      first_name |-> None, last_name |-> None],
     [username |-> Str_Ann, email |-> Mail_A, password |-> Pw_2,
      first_name |-> None, last_name |-> None],
     [username |-> Str_bob, email |-> Mail_b, password |-> Pw_2,
      first_name |-> None, last_name |-> None],
     [username |-> Str_cat, email |-> Mail_c, password |-> Pw_1,
      first_name |-> None, last_name |-> None]}

UsernameInputs == {Str_ann, Str_Ann, Str_bob, Str_cat}
EmailInputs == {Mail_a, Mail_A, Mail_b, Mail_c}
LoginNameInputs == UsernameInputs \cup EmailInputs \cup {Str_bad}
PasswordInputs == {Pw_1, Pw_2, Pw_weak}

\* page and size of GET /users: valid ones, and one of each kind refused
PageInputs ==
    {<<1, 1>>, <<2, 1>>, <<1, 2>>, <<1, MAX_PAGE_SIZE>>,
     <<0, 1>>, <<1, 0>>, <<1, MAX_PAGE_SIZE + 1>>}

NextAuth ==
    \/ \E d \in AuthCreateInputs : CreateUser(d, "s1", "none")
    \/ \E user_id \in IdInputs : DeleteUser(user_id, "none")
    \/ \E user_id \in IdInputs : GetUser(user_id)
    \/ \E username \in UsernameInputs : GetUserByUsername(username)
    \/ \E email \in EmailInputs : GetUserByEmail(email)
    \/ \E p \in PageInputs : \E scan \in Scans(store) : GetUsers(p[1], p[2], scan)
    \/ \E username \in LoginNameInputs : \E password \in PasswordInputs :
           Login(username, password)

SpecAuth == Init /\ [][NextAuth]_vars

---------------------------------------------------------------------------
(* SpecToken: one account is created and logs in during the first seconds,  *)
(* and bearer tokens are presented while the clock (in seconds) runs past   *)
(* the expiry of the tokens issued.                                         *)

TokenCreateInputs ==
    {[username |-> Str_ann, email |-> Mail_a, password |-> Pw_1,
      first_name |-> None, last_name |-> None]}

\* the last second of the clock: past the expiry of every token issued
MaxClock == MaxIssue + ACCESS_TOKEN_EXPIRE_MINUTES * 60 + 1

\* the seconds, up to clock, at which a token is issued
IssueTimes(clock) == {t \in 0..MaxIssue : t <= clock}

\* the tokens create_access_token has issued by the time clock
IssuedTokens(clock) ==
    {create_access_token(u, t0).access_token : u \in 1..MaxIds, t0 \in IssueTimes(clock)}

\* the claims of a token made elsewhere at the time clock, not yet expired
ClaimsOf(sub, clock) ==
    [sub |-> sub, exp |-> Some(clock + ACCESS_TOKEN_EXPIRE_MINUTES * 60), iat |-> Some(clock)]

\* tokens whose signature is not that of their claims under SECRET_KEY:
\* signed with another key, or the subject changed after signing
WrongSignatureTokens(clock) ==
    {JwtEncode(ClaimsOf(Some(JsonStr("1")), clock), "another-key", ALGORITHM),
     [claims |-> ClaimsOf(Some(JsonStr("2")), clock),
      sig |-> Sign(ClaimsOf(Some(JsonStr("1")), clock), SECRET_KEY, ALGORITHM)]}

\* tokens signed with SECRET_KEY that carry no subject
NoSubjectTokens(clock) ==
    {JwtEncode(ClaimsOf(None, clock), SECRET_KEY, ALGORITHM)}

\* tokens signed with SECRET_KEY whose subject is not a stringified user id:
\* a JSON number, a word, the empty string
MalformedSubjects == {JsonNum("1"), JsonStr("abc"), JsonStr("")}

MalformedSubjectTokens(clock) ==
    {JwtEncode(ClaimsOf(Some(sub), clock), SECRET_KEY, ALGORITHM) : sub \in MalformedSubjects}

PresentedTokens(clock) ==
    IssuedTokens(clock) \cup WrongSignatureTokens(clock)
        \cup NoSubjectTokens(clock) \cup MalformedSubjectTokens(clock)

NextToken ==
    \/ now <= MaxIssue /\ \E d \in TokenCreateInputs : CreateUser(d, "s1", "none")
    \/ now <= MaxIssue /\ \E password \in {Pw_1, Pw_2} : Login(Str_ann, password)
    \/ \E token \in PresentedTokens(now) : GetCurrentUserId(token)
    \/ TickTo(MaxClock)

SpecToken == Init /\ [][NextToken]_vars

---------------------------------------------------------------------------
(* SpecMe: accounts are created, log in and are soft-deleted, and GET       *)
(* requests for /users/me and /users/<id> arrive with and without tokens.   *)

\* tokens signed with SECRET_KEY whose exp is in the past at the time clock
ExpiredTokens(clock) ==
    {JwtEncode([sub |-> Some(JsonStr(ToString(u))),
                exp |-> Some(clock - 1),
                iat |-> Some(clock - 1 - ACCESS_TOKEN_EXPIRE_MINUTES * 60)],
               SECRET_KEY, ALGORITHM) : u \in 1..MaxIds}

SegmentInputs == {"me"} \cup {ToString(n) : n \in IdInputs}

CredentialInputs(clock) ==
    {None} \cup {Some(token) : token \in IssuedTokens(clock)
                     \cup WrongSignatureTokens(clock) \cup ExpiredTokens(clock)}

NextMe ==
    \/ \E d \in ProfileCreateInputs : CreateUser(d, "s1", "none")
    \/ \E user_id \in IdInputs : DeleteUser(user_id, "none")
    \/ \E username \in {Str_ann, Str_bob} : \E password \in {Pw_1, Pw_2} :
           Login(username, password)
    \/ \E segment \in SegmentInputs : \E credentials \in CredentialInputs(now) :
         \E refusal \in HTTPBearerRefusals : GetPath(segment, credentials, refusal)
    \/ TickTo(MaxTime)

SpecMe == Init /\ [][NextMe]_vars

---------------------------------------------------------------------------
(* SpecPage: a table of up to MaxRows users, some of them soft-deleted, is  *)
(* listed page by page.                                                     *)

\* the i-th user created: u01, u02, ...
NthUser(i, active) ==
    LET digit(n) == ToString(n % 10)
        tag == <<digit(i \div 10), digit(i)>>
    IN  [id |-> i,
         username |-> <<"u">> \o tag,
         email |-> <<"u">> \o tag \o Mail_a,
         password |-> hash_password(Pw_1, "s1"),
         first_name |-> None,
         last_name |-> None,
         is_active |-> active,
         created_at |-> 0,
         updated_at |-> 0]

\* the table after n creates and the soft-delete of every k-th user (k = 0:
\* of none)
UsersTable(n, k) == [i \in 1..n |-> NthUser(i, (k = 0) \/ ((i % k) # 0))]

DeletedStrides == {0, 3}

InitPage ==
    /\ \E n \in 0..MaxRows : \E k \in DeletedStrides :
           store = UsersTable(n, k) /\ idSeq = n
    /\ now = 0
    /\ resp = Response("none", 0, "", None)
    /\ inflight = [r \in Requests |-> Idle]

PageNumberInputs == 0..4
SizeInputs == {0, 1, 2, DEFAULT_PAGE_SIZE, MAX_PAGE_SIZE, MAX_PAGE_SIZE + 1}

\* the scans of a long table that are tried: the insertion order, its
\* reverse and two that wrap around
PageScans(st) ==
    {st, Reverse(st)} \cup {Rotate(st, k) : k \in {j \in {1, 7} : j < Len(st)}}

NextPage ==
    \E page \in PageNumberInputs : \E size \in SizeInputs : \E scan \in PageScans(store) :
        GetUsers(page, size, scan)

SpecPage == InitPage /\ [][NextPage]_vars

---------------------------------------------------------------------------
(* SpecFault: the write operations of two accounts, with the database       *)
(* failing at COMMIT or right after it.                                     *)

NextFault ==
    \/ \E d \in ProfileCreateInputs : \E fault \in Faults : CreateUser(d, "s1", fault)
    \/ \E user_id \in IdInputs : \E fault \in Faults : DeleteUser(user_id, fault)
    \/ \E user_id \in IdInputs : \E d \in ProfileUpdateInputs : \E fault \in Faults :
           UpdateUser(user_id, d, fault)

SpecFault == Init /\ [][NextFault]_vars

---------------------------------------------------------------------------
(* SpecSecret: accounts with different passwords and salts are created,     *)
(* updated, soft-deleted, read and listed.                                  *)

SecretCreateInputs ==
    {<<[username |-> Str_ann, email |-> Mail_a, password |-> Pw_1,
        first_name |-> None, last_name |-> None], "s1">>,
     <<[username |-> Str_Ann, email |-> Mail_A, password |-> Pw_2,
        first_name |-> None, last_name |-> None], "s2">>,
     <<[username |-> Str_bob, email |-> Mail_b, password |-> Pw_2,
        first_name |-> Some("Al"), last_name |-> None], "s1">>}

SecretUpdateInputs == {<<>>} \cup [first_name : FirstNameInputs] \cup [email : {Some(Mail_c)}]

NextSecret ==
    \/ \E c \in SecretCreateInputs : CreateUser(c[1], c[2], "none")
    \/ \E user_id \in IdInputs : \E d \in SecretUpdateInputs : UpdateUser(user_id, d, "none")
    \/ \E user_id \in IdInputs : DeleteUser(user_id, "none")
    \/ \E segment \in SegmentInputs : \E credentials \in CredentialInputs(now) :
           GetPath(segment, credentials, HTTP_401_UNAUTHORIZED)
    \/ \E scan \in Scans(store) : GetUsers(1, DEFAULT_PAGE_SIZE, scan)

SpecSecret == Init /\ [][NextSecret]_vars

---------------------------------------------------------------------------
(* SpecRace: two POST /users requests, for the same username, the same      *)
(* e-mail address or neither, overlap in every way on an empty table.       *)

RaceCreateInputs ==
    {[username |-> Str_ann, email |-> Mail_a, password |-> Pw_1,
      first_name |-> None, last_name |-> None],
     [username |-> Str_Ann, email |-> Mail_b, password |-> Pw_2,
      first_name |-> None, last_name |-> None],
     [username |-> Str_bob, email |-> Mail_A, password |-> Pw_1,
      first_name |-> None, last_name |-> None],
     [username |-> Str_bob, email |-> Mail_b, password |-> Pw_2,
      first_name |-> None, last_name |-> None]}

NextRace ==
    \E r \in Requests :
        \/ \E d \in RaceCreateInputs : BeginCreate(r, d)
        \/ CreateCheckUsername(r)
        \/ CreateCheckEmail(r)
        \/ CreateFlush(r, "s1")
        \/ CreateCommit(r)

SpecRace == Init /\ [][NextRace]_vars

----------------------------------------------------------------------------
(* An update and a delete of the same user that overlap.                   *)

RowCreateInput ==
    [username |-> Str_ann, email |-> Mail_a, password |-> Pw_1,
     first_name |-> None, last_name |-> None]

RowUpdateInputs ==
    {<<>>} \cup [first_name : {Some("Al")}] \cup [username : {Some(Str_bob)}]
           \cup [email : {Some(Mail_b)}]

NextRow ==
    \/ idSeq = 0 /\ CreateUser(RowCreateInput, "s1", "none")
    \/ TickTo(MaxTime)
    \/ \E r \in Requests :
        \/ \E d \in RowUpdateInputs : BeginUpdate(r, 1, d)
        \/ UpdateLookup(r)
        \/ UpdateCheckUsername(r)
        \/ UpdateCheckEmail(r)
        \/ UpdateFlush(r)
        \/ UpdateCommit(r)
        \/ UpdateRefresh(r)
        \/ BeginDelete(r, 1)
        \/ DeleteLookup(r)
        \/ DeleteFlush(r)
        \/ DeleteCommit(r)

SpecRow == Init /\ [][NextRow]_vars

---------------------------------------------------------------------------
(* Properties *)

\* comparison of two strings without regard to letter case, computed on
\* the characters (it does not go through Lower)
SameLetter(a, b) ==
    a = b \/ \E k \in DOMAIN UpperSeq : {a, b} = {UpperSeq[k], LowerSeq[k]}

SameIgnoringCase(a, b) ==
    Len(a) = Len(b) /\ \A i \in DOMAIN a : SameLetter(a[i], b[i])

ActiveRows(st) == {st[i] : i \in {j \in DOMAIN st : st[j].is_active}}
InactiveRows(st) == {st[i] : i \in {j \in DOMAIN st : ~st[j].is_active}}
Ids(st) == {st[i].id : i \in DOMAIN st}

\* C1: in every reachable state no two active rows hold the same username
\* and no two active rows hold the same email, compared case-insensitively.
C1_UniqueAmongActive ==
    \A i \in DOMAIN store : \A j \in DOMAIN store :
        (i # j /\ store[i].is_active /\ store[j].is_active) =>
            /\ ~SameIgnoringCase(store[i].username, store[j].username)
            /\ ~SameIgnoringCase(store[i].email, store[j].email)

\* two active rows stand, and a create that duplicates one of them has just
\* been turned down
C1_Witness ==
    /\ Cardinality(ActiveRows(store)) >= 2
    /\ resp.op = "create_user"
    /\ resp.status = HTTP_400_BAD_REQUEST

\* C2: in every reachable state, a create whose username equals, in any
\* letter case, the username of an active user, or whose email equals the
\* email of an active user, is answered 400 and leaves the table as it was.
C2_DuplicateCreateRejected ==
    \A d \in AccountCreateInputs : \A fault \in Faults :
        ( /\ UserCreateOK(d)
          /\ \E r \in ActiveRows(store) :
                 \/ SameIgnoringCase(r.username, d.username)
                 \/ SameIgnoringCase(r.email, d.email) )
        => LET out == create_user(store, idSeq, now, UserCreate(d), "s1", fault)
           IN  /\ out.status = HTTP_400_BAD_REQUEST
               /\ out.body = None
               /\ out.store = store
               /\ out.idSeq = idSeq

\* a create was turned down for its username, written in another case than
\* the stored one
C2_Witness ==
    /\ resp.op = "create_user"
    /\ resp.status = HTTP_400_BAD_REQUEST
    /\ resp.detail = "Username already registered"
    /\ \E r \in ActiveRows(store) : r.username = Str_ann

\* the row a successful create of d appends
CreatedRow(d, id, clock) ==
    [id |-> id, username |-> Lower(d.username), email |-> Lower(d.email),
     password |-> hash_password(d.password, "s1"),
     first_name |-> d.first_name, last_name |-> d.last_name, is_active |-> TRUE,
     created_at |-> clock, updated_at |-> clock]

\* C3 (as claimed): in every reachable state, a valid create succeeds when
\* no active row holds its username and no active row holds its email (in
\* particular when only a soft-deleted row does): it appends an active row
\* and returns it.
C3_CreateSucceedsWhenFree ==
    \A d \in AccountCreateInputs :
        ( /\ UserCreateOK(d)
          /\ \A r \in ActiveRows(store) :
                 /\ ~SameIgnoringCase(r.username, d.username)
                 /\ ~SameIgnoringCase(r.email, d.email) )
        => LET out == create_user(store, idSeq, now, UserCreate(d), "s1", "none")
           IN  /\ out.status = HTTP_201_CREATED
               /\ out.store = Append(store, CreatedRow(d, idSeq + 1, now))
               /\ out.body = Some(CreatedRow(d, idSeq + 1, now))

\* C4: a row, once in the table, stays in it, and a row whose is_active is
\* false never has is_active true again.
C4_LifecycleForward ==
    [][/\ Ids(store) \subseteq Ids(store')
       /\ \A r \in InactiveRows(store) : \A q \in ActiveRows(store') : q.id # r.id]_vars

\* a soft-deleted row is in the table and an update of it, which could have
\* set is_active, was answered 404
C4_Witness ==
    /\ InactiveRows(store) # {}
    /\ resp.op = "update_user"
    /\ resp.status = HTTP_404_NOT_FOUND

\* C6: in every reachable state, update and delete of an id no active row
\* has (never created, or soft-deleted) are answered 404 and leave the table
\* as it was.
C6_NotFoundLeavesStore ==
    \A user_id \in IdInputs : \A fault \in Faults :
        (\A r \in ActiveRows(store) : r.id # user_id) =>
            /\ LET out == delete_user(store, idSeq, now, user_id, fault)
               IN  out.status = HTTP_404_NOT_FOUND /\ out.store = store
            /\ \A d \in AccountUpdateInputs :
                   LET out == update_user(store, idSeq, now, user_id, UserUpdate(d), fault)
                   IN  out.status = HTTP_404_NOT_FOUND /\ out.store = store

\* a delete of an id whose row is already soft-deleted was answered 404
C6_Witness ==
    /\ resp.op = "delete_user"
    /\ resp.status = HTTP_404_NOT_FOUND
    /\ InactiveRows(store) # {}
    /\ ActiveRows(store) = {}
    /\ idSeq = MaxIds

\* bodies of PUT /users/{id} that set username, email or both, to values
IdentityUpdateInputs ==
    {d \in AccountUpdateInputs :
        /\ DOMAIN d # {}
        /\ DOMAIN d \subseteq {"username", "email"}
        /\ \A f \in DOMAIN d : ~IsNone(d[f])}

\* another active row holds the value d sets for column f, and that value is
\* not the one row cur holds already
Clash(st, cur, d, f) ==
    /\ f \in DOMAIN d
    /\ ~SameIgnoringCase(Val(d[f]), cur[f])
    /\ \E r \in ActiveRows(st) : r.id # cur.id /\ SameIgnoringCase(r[f], Val(d[f]))

\* row cur with the values of d stored, lower-cased
Renamed(cur, d) ==
    [cur EXCEPT !.username = IF "username" \in DOMAIN d THEN Lower(Val(d.username)) ELSE @,
                !.email = IF "email" \in DOMAIN d THEN Lower(Val(d.email)) ELSE @]

\* C8 (as claimed): in every reachable state, an update of an active user's
\* username or email is answered 400, changing nothing, exactly when another
\* active row holds the new value; otherwise (also when only a soft-deleted
\* row holds it) it is applied and the updated user is returned.
C8_UpdateConflictExactly ==
    \A cur \in ActiveRows(store) : \A d \in IdentityUpdateInputs :
        LET out == update_user(store, idSeq, now, cur.id, UserUpdate(d), "none")
        IN  IF Clash(store, cur, d, "username") \/ Clash(store, cur, d, "email")
            THEN out.status = HTTP_400_BAD_REQUEST /\ out.store = store
            ELSE /\ out.status = 200
                 /\ \E w \in ActiveRows(out.store) :
                        /\ out.body = Some(w)
                        /\ [w EXCEPT !.updated_at = cur.updated_at] = Renamed(cur, d)
                 /\ Len(out.store) = Len(store)
                 /\ \A i \in DOMAIN store : store[i].id # cur.id => out.store[i] = store[i]

\* a body of PUT /users/{id}: each field is left out (None) or set (Some(v))
Body(u, e, f, l, a) ==
    [x \in {y \in UpdateFields :
               \/ y = "username" /\ ~IsNone(u)
               \/ y = "email" /\ ~IsNone(e)
               \/ y = "first_name" /\ ~IsNone(f)
               \/ y = "last_name" /\ ~IsNone(l)
               \/ y = "is_active" /\ ~IsNone(a)} |->
        IF x = "username" THEN Val(u)
        ELSE IF x = "email" THEN Val(e)
        ELSE IF x = "first_name" THEN Val(f)
        ELSE IF x = "last_name" THEN Val(l)
        ELSE Val(a)]

UsernameChoices == {None, Some(Some(Str_Ann))}
EmailChoices == {None, Some(Some(Mail_b))}
FirstNameChoices == {None, Some(None), Some(Some("Al"))}
LastNameChoices == {None, Some(Some("Lee"))}
IsActiveChoices == {None, Some(Some(FALSE))}

\* the columns of w that the body d did not set are those of cur, and so are
\* id, password and created_at
Kept(cur, w, d) ==
    /\ \A col \in UpdateFields \ DOMAIN d : w[col] = cur[col]
    /\ w.id = cur.id
    /\ w.password = cur.password
    /\ w.created_at = cur.created_at

\* P(cur, w, d) holds of every successful update: d the body, cur the row
\* before and w the row after; every other row is as it was
EveryUpdate(P(_, _, _)) ==
    \A cur \in ActiveRows(store) :
      \A u \in UsernameChoices : \A e \in EmailChoices : \A f \in FirstNameChoices :
        \A l \in LastNameChoices : \A a \in IsActiveChoices :
          LET d == Body(u, e, f, l, a)
              out == update_user(store, idSeq, now, cur.id, UserUpdate(d), "none")
          IN  out.status = 200 =>
                /\ Len(out.store) = Len(store)
                /\ \A i \in DOMAIN store :
                       IF store[i].id = cur.id
                       THEN P(cur, out.store[i], d) /\ out.body = Some(out.store[i])
                       ELSE out.store[i] = store[i]

Refreshed(cur, w, d) == Kept(cur, w, d) /\ w.updated_at = now

RefreshedIfChanged(cur, w, d) ==
    /\ Kept(cur, w, d)
    /\ IF \E col \in UpdateFields : w[col] # cur[col] THEN w.updated_at = now ELSE w = cur

\* C7 (as claimed): in every reachable state, a successful update changes
\* only the fields its body sets, never id, password or created_at, leaves
\* every other row as it was, and refreshes updated_at of the updated row.
C7_UpdateFrameRefreshes == EveryUpdate(Refreshed)

\* C7 (amended): as claimed, except that updated_at is refreshed when the
\* update changes the value of at least one column; an update that changes
\* no value leaves the whole row, updated_at included, as it was.
C7_UpdateFrame == EveryUpdate(RefreshedIfChanged)

\* an update has changed a row after the clock moved: the row returned
\* carries a new updated_at and its old created_at
C7_Witness ==
    /\ resp.op = "update_user"
    /\ resp.status = 200
    /\ Val(resp.body).updated_at > Val(resp.body).created_at
    /\ Cardinality(ActiveRows(store)) >= 2

\* the plaintexts a stored digest is the hash of
PlaintextsOf(digest) ==
    {pw \in PasswordInputs : \E salt \in Salts : digest = hash_password(pw, salt)}

\* C5: in every reachable state, a soft-deleted row is absent for every
\* read: get_user_by_id of its id, get_user_by_username of its username and
\* get_user_by_email of its email (in any case) return None, get_all_users
\* neither returns it nor counts it in total, and authenticate_user with its
\* username or email and its password returns None.
C5_SoftDeletedAbsent ==
    \A r \in InactiveRows(store) :
        /\ get_user_by_id(store, r.id) = None
        /\ \A v \in UsernameInputs :
               SameIgnoringCase(v, r.username) => get_user_by_username(store, v) = None
        /\ \A v \in EmailInputs :
               SameIgnoringCase(v, r.email) => get_user_by_email(store, v) = None
        /\ \A p \in PageInputs : \A scan \in Scans(store) :
               LET pagination == get_pagination_params(p[1], p[2])
                   result == get_all_users(store, Val(pagination).skip,
                                           Val(pagination).limit, scan)
               IN  ~IsNone(pagination) =>
                       /\ \A i \in DOMAIN result.users : result.users[i] # r
                       /\ result.total = Cardinality(ActiveRows(store))
        /\ \A v \in LoginNameInputs : \A pw \in PlaintextsOf(r.password) :
               SameIgnoringCase(v, r.username) \/ SameIgnoringCase(v, r.email)
                   => authenticate_user(store, v, pw) = None

\* the users have been listed while a soft-deleted row and an active row
\* are in the table: the list counts the active rows only
C5_Witness ==
    /\ InactiveRows(store) # {}
    /\ resp.op = "get_users"
    /\ resp.status = 200
    /\ Val(resp.body).total = Cardinality(ActiveRows(store))
    /\ Val(resp.body).total >= 1
    /\ Len(Val(resp.body).users) >= 1

\* the active rows the credentials are those of
Holders(st, name, pw) ==
    {r \in ActiveRows(st) :
        /\ SameIgnoringCase(r.username, name) \/ SameIgnoringCase(r.email, name)
        /\ pw \in PlaintextsOf(r.password)}

\* C9: in every reachable state, authenticate_user returns a user exactly
\* when an active row's username or email is the input up to case and the
\* plaintext is the one its digest was made from, and then that row; login
\* then answers 200 with a token for that row's id; every other login (no
\* such user, soft-deleted user, wrong password) gets one and the same 401
\* response.
C9_AuthenticateExactly ==
    \A name \in LoginNameInputs : \A pw \in PasswordInputs :
        LET user == authenticate_user(store, name, pw)
            answer == login(store, now, name, pw)
        IN  /\ IsNone(user) <=> Holders(store, name, pw) = {}
            /\ ~IsNone(user) =>
                   /\ Val(user) \in Holders(store, name, pw)
                   /\ answer.status = 200
                   /\ Val(answer.body) = create_access_token(Val(user).id, now)
            /\ IsNone(user) =>
                   /\ answer.status = HTTP_401_UNAUTHORIZED
                   /\ \A name2 \in LoginNameInputs : \A pw2 \in PasswordInputs :
                          IsNone(authenticate_user(store, name2, pw2))
                              => login(store, now, name2, pw2) = answer

\* a login has succeeded while a soft-deleted row and two passwords are in
\* the table
C9_Witness ==
    /\ resp.op = "login"
    /\ resp.status = 200
    /\ InactiveRows(store) # {}
    /\ \E r \in ActiveRows(store) :
           /\ Val(resp.body) = create_access_token(r.id, now)
           /\ \E q \in InactiveRows(store) : q.password # r.password

\* the token issued for user u at t0 verifies to u's (stringified) id
\* before its expiry and is refused after it
ValidExactly(u, t0) ==
    LET issued == create_access_token(u, t0)
        expiry == t0 + issued.expires_in
    IN  /\ now < expiry => get_current_user_id(issued.access_token, now) = Some(ToString(u))
        /\ now > expiry => get_current_user_id(issued.access_token, now) = None

\* C10: at every time, a token issued for user id u at t0 verifies to u
\* before t0 + T and is refused (401) after t0 + T; a token with a wrong
\* signature, and a token with an absent or malformed subject, is refused.
C10_TokenValidExactly ==
    /\ \A u \in 1..MaxIds : \A t0 \in IssueTimes(now) : ValidExactly(u, t0)
    /\ \A token \in WrongSignatureTokens(now) : get_current_user_id(token, now) = None
    /\ \A token \in NoSubjectTokens(now) : get_current_user_id(token, now) = None
    /\ \A token \in MalformedSubjectTokens(now) : get_current_user_id(token, now) = None

\* C11: in every reachable state, GET /users/me with a token issued for a
\* row is answered by get_current_user: 200 with the row's data if the row
\* is active, 404 if it is soft-deleted; without a token, or with a token
\* that is wrongly signed or expired, it is answered 401.
C11_MeAnswers ==
    \A refusal \in HTTPBearerRefusals :
        /\ \A i \in DOMAIN store : \A t0 \in IssueTimes(now) :
               LET r == store[i]
                   token == create_access_token(r.id, t0).access_token
                   answer == Get(store, now, "me", Some(token), refusal)
               IN  /\ answer.op = "get_current_user"
                   /\ r.is_active =>
                          answer.status = 200 /\ answer.body = Some(UserResponse(r))
                   /\ ~r.is_active => answer.status = HTTP_404_NOT_FOUND
        /\ Get(store, now, "me", None, refusal).status = HTTP_401_UNAUTHORIZED
        /\ \A token \in WrongSignatureTokens(now) \cup ExpiredTokens(now) :
               Get(store, now, "me", Some(token), refusal).status = HTTP_401_UNAUTHORIZED

Min(a, b) == IF a < b THEN a ELSE b
Max(a, b) == IF a > b THEN a ELSE b

\* C12: for every table and every valid page and size, the list uses
\* skip = (page - 1) * size and limit = size, returns exactly
\* min(size, max(0, total - skip)) users, and reports the page and the size
\* requested, the number total of active users and pages = ceil(total / size)
\* (the least number of pages of that size that hold total users).
C12_PageArithmetic ==
    \A page \in PageNumberInputs : \A size \in SizeInputs :
        page >= 1 /\ size >= 1 /\ size <= MAX_PAGE_SIZE =>
            LET pagination == Val(get_pagination_params(page, size))
                total == Cardinality(ActiveRows(store))
            IN  /\ pagination.skip = (page - 1) * size
                /\ pagination.limit = size
                /\ \A scan \in PageScans(store) :
                       LET result == get_all_users(store, pagination.skip,
                                                   pagination.limit, scan)
                       IN  /\ Len(result.users) = Min(size, Max(0, total - (page - 1) * size))
                           /\ result.page = page
                           /\ result.size = size
                           /\ result.total = total
                           /\ result.pages * size >= total
                           /\ (result.pages - 1) * size < total

\* page 3 of 45 active users by 20 has been listed: 5 users, 3 pages
C12_Witness ==
    /\ Cardinality(ActiveRows(store)) = 45
    /\ resp.op = "get_users"
    /\ resp.status = 200
    /\ Val(resp.body).page = 3
    /\ Val(resp.body).size = 20
    /\ Val(resp.body).pages = 3
    /\ Len(Val(resp.body).users) = 5

\* C13: for every table, a list request with page < 1, size < 1 or
\* size > MAX_PAGE_SIZE is answered 400 and sends no query to the database.
C13_InvalidPageRefused ==
    \A page \in PageNumberInputs : \A size \in SizeInputs : \A scan \in PageScans(store) :
        page < 1 \/ size < 1 \/ size > MAX_PAGE_SIZE =>
            /\ get_users(store, page, size, scan).response.status = HTTP_400_BAD_REQUEST
            /\ get_users(store, page, size, scan).response.body = None
            /\ get_users(store, page, size, scan).queries = <<>>

\* a list request has been refused while the table holds active users
C13_Witness ==
    /\ resp.op = "get_users"
    /\ resp.status = HTTP_400_BAD_REQUEST
    /\ resp.body = None
    /\ ActiveRows(store) # {}

\* the active rows in the order of their insertion
ActiveInOrder(st) == SelectSeq(st, LAMBDA r : r.is_active)

\* the page-th slice of size rows of a sequence
Slice(q, page, size) ==
    SubSeq(q, (page - 1) * size + 1, Min(page * size, Len(q)))

\* C14: in every reachable state and for every order in which the database
\* may return the rows, each page of a valid size is the slice of the active
\* users, taken in insertion order, that starts after (page - 1) * size
\* users; so pages 1..pages hold every active user once, in insertion order.
C14_PagesInInsertionOrder ==
    \A p \in PageInputs : \A scan \in Scans(store) :
        LET pagination == get_pagination_params(p[1], p[2])
        IN  ~IsNone(pagination) =>
                get_all_users(store, Val(pagination).skip, Val(pagination).limit, scan).users
                    = Slice(ActiveInOrder(store), p[1], p[2])

\* the operation got as far as its commit: it answers neither 400, 404 nor
\* the 500 of the global exception handler
ReachesCommit(out) ==
    out.status \notin {HTTP_400_BAD_REQUEST, HTTP_404_NOT_FOUND}
        /\ out.detail # "Internal server error"

\* the commit of an operation failed: 500, nothing returned, and the table
\* after it is the table before it
RolledBack(st, out) ==
    /\ out.status = HTTP_500_INTERNAL_SERVER_ERROR
    /\ out.body = None
    /\ out.store = st

\* C15: in every reachable state and for every create, update and delete
\* that gets as far as its commit, a commit that fails (the connection
\* fails, or a constraint rejects the change) leaves the table exactly as
\* it was and the operation answers 500; no insert and no field change of a
\* failed commit stays.
C15_FailedCommitRollsBack ==
    /\ \A d \in ProfileCreateInputs :
           LET ok == create_user(store, idSeq, now, UserCreate(d), "s1", "none")
               failed == create_user(store, idSeq, now, UserCreate(d), "s1", "commit")
           IN  /\ ReachesCommit(ok) => RolledBack(store, failed)
               /\ ok.status = HTTP_500_INTERNAL_SERVER_ERROR => RolledBack(store, ok)
    /\ \A user_id \in IdInputs :
           /\ \A d \in AccountUpdateInputs \cup ProfileUpdateInputs :
                  LET ok == update_user(store, idSeq, now, user_id, UserUpdate(d), "none")
                      failed == update_user(store, idSeq, now, user_id, UserUpdate(d), "commit")
                  IN  /\ ReachesCommit(ok) => RolledBack(store, failed)
                      /\ ok.status = HTTP_500_INTERNAL_SERVER_ERROR => RolledBack(store, ok)
           /\ LET ok == delete_user(store, idSeq, now, user_id, "none")
                  failed == delete_user(store, idSeq, now, user_id, "commit")
              IN  ReachesCommit(ok) => RolledBack(store, failed)

\* a delete has failed at its commit and the user is still active, after
\* another commit had failed
C15_Witness ==
    /\ resp.op = "delete_user"
    /\ resp.status = HTTP_500_INTERNAL_SERVER_ERROR
    /\ resp.detail = "Error deleting user"
    /\ ActiveRows(store) # {}
    /\ idSeq > Len(store)

\* digest is a bcrypt digest of the plaintext pw under the salt it carries
IsDigestOf(digest, pw) ==
    /\ digest.scheme = "$2b$"
    /\ digest.checksum = Bcrypt(digest.salt, pw)

\* a user as a response returns it has no password field
NoPassword(user) == "password" \notin DOMAIN user

\* the operations that answer with one user
UserEndpoints == {"create_user", "get_user", "update_user", "get_current_user"}

\* C16: in every reachable state every row's password column is a digest
\* of one of the plaintexts supplied, and a create stores the digest of the
\* plaintext of its body; no update and no delete changes the password of
\* any row; and no user in a response (create, get, list, update, me) has a
\* password field.
C16_PasswordKeptSecret ==
    /\ \A i \in DOMAIN store :
           \E pw \in {Pw_1, Pw_2} : IsDigestOf(store[i].password, pw)
    /\ \A c \in SecretCreateInputs :
           LET out == create_user(store, idSeq, now, UserCreate(c[1]), c[2], "none")
           IN  out.status = HTTP_201_CREATED =>
                   /\ IsDigestOf(out.store[Len(out.store)].password, c[1].password)
                   /\ \A i \in DOMAIN store : out.store[i].password = store[i].password
    /\ \A user_id \in IdInputs : \A fault \in Faults :
           /\ \A d \in SecretUpdateInputs :
                  LET out == update_user(store, idSeq, now, user_id, UserUpdate(d), fault)
                  IN  \A i \in DOMAIN store : out.store[i].password = store[i].password
           /\ LET out == delete_user(store, idSeq, now, user_id, fault)
              IN  \A i \in DOMAIN store : out.store[i].password = store[i].password
    /\ resp.op \in UserEndpoints /\ ~IsNone(resp.body) => NoPassword(Val(resp.body))
    /\ resp.op = "get_users" /\ ~IsNone(resp.body) =>
           \A i \in DOMAIN Val(resp.body).users : NoPassword(Val(resp.body).users[i])
    /\ \A credentials \in CredentialInputs(now) :
           LET answer == get_current_user(store, now, credentials, HTTP_401_UNAUTHORIZED)
           IN  ~IsNone(answer.body) => NoPassword(Val(answer.body))

\* two users with different passwords are stored, one updated since, and a
\* response has returned a user
C16_Witness ==
    /\ \E i, j \in DOMAIN store :
           /\ IsDigestOf(store[i].password, Pw_1)
           /\ IsDigestOf(store[j].password, Pw_2)
           /\ store[i].email = Mail_c
    /\ resp.op \in UserEndpoints
    /\ ~IsNone(resp.body)
    /\ Val(resp.body).email = Mail_c

\* the two requests, once both have been answered, in either order
DonePairs ==
    {p \in Requests \X Requests :
        /\ p[1] # p[2]
        /\ inflight[p[1]].pc = "done" /\ inflight[p[2]].pc = "done"
        /\ inflight[p[1]].op = "create_user" /\ inflight[p[2]].op = "create_user"}

SharesUsername(a, b) == SameIgnoringCase(a.body.username, b.body.username)
SharesEmail(a, b) == SameIgnoringCase(a.body.email, b.body.email)

\* the request a ran a check of a field it shares with b after b's row was
\* committed (b's row is the first row of the table)
CheckedAfterCommit(a, b) ==
    \/ SharesUsername(a, b) /\ a.username_check_at >= 1
    \/ SharesEmail(a, b) /\ a.email_check_at >= 1

\* C17: under every interleaving of two create requests on an empty table,
\* no two committed rows hold the same username or the same email; when the
\* two requests are for the same username or the same email, one is
\* answered 201 and the other fails: with 400 (Conflict) if it checked the
\* shared field after the winner's commit, otherwise with 500 after the
\* unique constraint rejected its insert, and its row is not in the table.
C17_OneCreateWins ==
    /\ \A i, j \in DOMAIN store :
           i # j => /\ ~SameIgnoringCase(store[i].username, store[j].username)
                    /\ ~SameIgnoringCase(store[i].email, store[j].email)
    /\ \A p \in DonePairs :
           LET a == inflight[p[1]]
               b == inflight[p[2]]
           IN  SharesUsername(a, b) \/ SharesEmail(a, b) =>
                   /\ {a.response.status, b.response.status}
                          \in {{HTTP_201_CREATED, HTTP_400_BAD_REQUEST},
                               {HTTP_201_CREATED, HTTP_500_INTERNAL_SERVER_ERROR}}
                   /\ Len(store) = 1
                   /\ b.response.status = HTTP_201_CREATED =>
                          /\ a.response.status = HTTP_400_BAD_REQUEST
                                 <=> CheckedAfterCommit(a, b)
                          /\ store[1].username = Lower(b.body.username)
                          /\ store[1].email = Lower(b.body.email)

\* both requests passed both checks before either committed: one row is in
\* the table, the loser was answered 500
C17_Witness ==
    \E p \in DonePairs :
        /\ SharesUsername(inflight[p[1]], inflight[p[2]])
        /\ inflight[p[1]].response.status = HTTP_500_INTERNAL_SERVER_ERROR
        /\ inflight[p[1]].response.detail = "Error creating user"
        /\ inflight[p[1]].email_check_at = 0
        /\ inflight[p[2]].response.status = HTTP_201_CREATED
        /\ Len(store) = 1


\* C18: when an update and a delete of the same active user overlap, no step
\* changes username, email, first_name or last_name of a row whose soft
\* delete is committed, and no update answers 200 for such a row.
UserFields(row) == <<row.username, row.email, row.first_name, row.last_name>>

UpdateSucceeds(r) ==
    /\ inflight[r].op = "update_user"
    /\ inflight[r].pc # "done"
    /\ inflight'[r].pc = "done"
    /\ inflight'[r].response.status = 200

C18_UpdateOnlyActiveRow ==
    [][/\ \A i \in DOMAIN store :
              ~store[i].is_active => UserFields(store'[i]) = UserFields(store[i])
       /\ \A r \in Requests :
              UpdateSucceeds(r) =>
                  ~IsNone(get_user_by_id(store, inflight[r].user_id))]_vars

=============================================================================
